---- MODULE Spec2Model ----
(***************************************************************************)
(* Model of src/main.py: the FastAPI backend that serves a Reddit          *)
(* account's statistics, posts and comments through PRAW.                  *)
(*                                                                         *)
(* State: the process environment, the provider (Reddit) with the          *)
(* accounts' listings, the module-level reddit_instance, and the last      *)
(* request served with its response.  One action per endpoint; the         *)
(* dependency get_reddit_instance is part of the endpoint's action.        *)
(* SpecConc splits get_reddit_instance at its reads and writes of the      *)
(* global to model the server's thread pool.                               *)
(*                                                                         *)
(* Fields of the response models that are copied unchanged from the        *)
(* provider's record (title, subreddit, score, ups, downs, num_comments,   *)
(* permalink) or are a date formatting of created_utc are left out.        *)
(***************************************************************************)
EXTENDS Integers, Sequences, FiniteSets, Bags, TLC

VARIABLES
    env,              \* names of the REDDIT_* environment variables set (lines 96-100)
    provider,         \* "ok", or the text of the error the provider answers with
    submissions,      \* account -> user.submissions.new(), in the provider's order
    comments,         \* account -> user.comments.new(), in the provider's order
    reddit_instance,  \* the module-level client (line 84), NoClient or a client
    created,          \* number of clients built at line 111
    verified,         \* serials of the clients whose line-120 test succeeded
    req,              \* the last request served
    resp,             \* the response to it
    twin,             \* the response of the run that differs only in the error text
    pc,               \* thread -> position in get_reddit_instance / the handler
    treq,             \* thread -> the request it is serving
    tlocal            \* thread -> the client get_reddit_instance returned to it

vars == <<env, provider, submissions, comments, reddit_instance, created,
          verified, req, resp, twin, pc, treq, tlocal>>

(***************************************************************************)
(* Bounds and program constants                                            *)
(***************************************************************************)
MaxItems == 3       \* items (posts + comments) of the drawn account
MaxTime == 2        \* created_utc ranges over 1..MaxTime
MaxLimit == 3       \* largest limit a request carries
MaxBodyLen == 250   \* longest body drawn by InitPreview
NThreads == 2       \* request threads of SpecConc

MaxNegLimit == 1    \* limit ranges over -MaxNegLimit..MaxLimit

PreviewLen == 200

\* Python's None, as a client and as a text.
NoClient == [credentials |-> "None", serial |-> 0]
NoText == <<"None">>
NoAccount == "nobody"

EnvVars == {"REDDIT_CLIENT_ID", "REDDIT_CLIENT_SECRET", "REDDIT_USER_AGENT",
            "REDDIT_USERNAME", "REDDIT_PASSWORD"}

\* The environments drawn: everything set, one variable missing, nothing set.
EnvChoices == {EnvVars, {}} \cup {EnvVars \ {v} : v \in EnvVars}

Accounts == {"alice", "bob"}
Credentials == {"alice-secret", "bob-secret", "wrong-secret"}
EnvCreds == "alice-secret"

AccountOf(credentials) ==
    CASE credentials = "alice-secret" -> "alice"
      [] credentials = "bob-secret" -> "bob"
      [] OTHER -> NoAccount

ErrTexts == {"received 503 HTTP response", "error with request: timed out"}
InvalidGrant == "invalid_grant error processing request"

SortOrders == {"oldest", "newest"}
SortInputs == SortOrders \cup {"top"}
Limits == (0 - MaxNegLimit)..MaxLimit
Threads == 1..NThreads

Ellipsis == <<".", ".", ".">>

Min(a, b) == IF a < b THEN a ELSE b
Max(a, b) == IF a < b THEN b ELSE a
Range(s) == {s[i] : i \in DOMAIN s}
SeqToBag(s) == [x \in Range(s) |-> Cardinality({i \in DOMAIN s : s[i] = x})]

(***************************************************************************)
(* The provider, as PRAW shows it to the code                              *)
(***************************************************************************)
\* A call through a client: "ok", or the text of the exception it raises.
ProviderError(credentials, prov) ==
    IF prov # "ok" THEN prov
    ELSE IF AccountOf(credentials) = NoAccount THEN InvalidGrant
    ELSE "ok"

\* .new(limit=None): the whole listing.
ListingAll(listing) == listing

\* .new(limit=n): the generator stops once it has yielded n items.
ListingNew(listing, limit) == SubSeq(listing, 1, Min(Max(limit, 0), Len(listing)))

link_karma(account) == IF account = "alice" THEN 7 ELSE 2
comment_karma(account) == IF account = "alice" THEN 0 - 3 ELSE 5

(***************************************************************************)
(* Pure helpers of the handlers                                            *)
(***************************************************************************)
\* A count of the distinct records instead of the items.
CountItems_Distinct(listing) == Cardinality(Range(listing))

\* sum(1 for _ in listing)
CountItems(listing) == Len(listing)

\* Python's list[:limit], limit any integer.
SliceTo(s, limit) ==
    IF limit >= 0 THEN SubSeq(s, 1, Min(limit, Len(s)))
    ELSE SubSeq(s, 1, Max(Len(s) + limit, 0))

\* list.sort(key=lambda x: x.created_utc): stable, ascending.
RECURSIVE InsertByCreated(_, _)
InsertByCreated(x, sorted) ==
    IF sorted = <<>> THEN <<x>>
    ELSE IF x.created_utc < Head(sorted).created_utc THEN <<x>> \o sorted
    ELSE <<Head(sorted)>> \o InsertByCreated(x, Tail(sorted))

\* The sort left out: the provider's order is kept.
SortByCreated_Unsorted(s) == s

RECURSIVE SortByCreated(_)
SortByCreated(s) ==
    IF s = <<>> THEN <<>>
    ELSE InsertByCreated(s[Len(s)], SortByCreated(SubSeq(s, 1, Len(s) - 1)))

\* The comparison written >= instead of >.
Preview_Inclusive(text) ==
    IF Len(text) >= PreviewLen THEN SubSeq(text, 1, PreviewLen) \o Ellipsis ELSE text

\* text[:200] + "..." if len(text) > 200 else text
Preview(text) ==
    IF Len(text) > PreviewLen THEN SubSeq(text, 1, PreviewLen) \o Ellipsis ELSE text

\* content_preview = None; if post.selftext: content_preview = ...
ContentPreview(selftext) == IF selftext # <<>> THEN Preview(selftext) ELSE NoText

PostResponse(post) ==
    [created_utc |-> post.created_utc,
     selftext |-> post.selftext,
     content_preview |-> ContentPreview(post.selftext)]

CommentResponse(comment) ==
    [created_utc |-> comment.created_utc,
     body |-> comment.body,
     comment_preview |-> Preview(comment.body)]

(***************************************************************************)
(* Requests and responses                                                  *)
(***************************************************************************)
EnvListingEps == {"/api/user/posts", "/api/user/comments"}
WCListingEps == {"/api/user/posts/with-credentials",
                 "/api/user/comments/with-credentials"}
ListingEps == EnvListingEps \cup WCListingEps
WCEps == WCListingEps \cup {"/api/user/stats/with-credentials"}
EnvEps == EnvListingEps \cup {"/api/user/stats"}

Request(ep, limit, sort_order, credentials) ==
    [ep |-> ep, limit |-> limit, sort_order |-> sort_order,
     credentials |-> credentials]

\* limit: int = 10, sort_order: str = "newest"
DefaultLimit == 10
DefaultSortOrder == "newest"

NoReq == Request("-", 0, "-", "-")

\* return value, serialised with status 200
Ok(body) == [status |-> 200, detail |-> <<>>, body |-> body]

\* raise HTTPException(status_code=status, detail=detail)
HTTPException(status, detail) == [status |-> status, detail |-> detail, body |-> <<>>]

\* f"{prefix}{str(e)}"
FStr(prefix, e) == <<prefix, e>>

NoResp == [status |-> 0, detail |-> <<>>, body |-> <<>>]

(***************************************************************************)
(* get_reddit_instance and create_reddit_instance_with_credentials         *)
(***************************************************************************)
\* praw.Reddit(...): the n-th client built from the environment.
EnvClient(n) == [credentials |-> EnvCreds, serial |-> n]

\* The dependency as one step.  global: reddit_instance afterwards; reddit: the
\* value returned; made, passed: a client was built, its test succeeded;
\* raised: the HTTPException, status 0 when none.
get_reddit_instance(ri, e, prov, n) ==
    IF ri # NoClient THEN
        [global |-> ri, reddit |-> ri, made |-> FALSE, passed |-> FALSE,
         raised |-> NoResp]
    ELSE IF e # EnvVars THEN
        [global |-> ri, reddit |-> NoClient, made |-> FALSE, passed |-> FALSE,
         raised |-> HTTPException(500,
                      <<"Missing Reddit API credentials in environment variables">>)]
    ELSE LET built == EnvClient(n + 1)
             err == ProviderError(built.credentials, prov)
         IN  IF err = "ok" THEN
                 [global |-> built, reddit |-> built, made |-> TRUE,
                  passed |-> TRUE, raised |-> NoResp]
             ELSE
                 [global |-> built, reddit |-> NoClient, made |-> TRUE,
                  passed |-> FALSE,
                  raised |-> HTTPException(500,
                               FStr("Error connecting to Reddit: ", err))]

\* The client built from the environment's credentials instead of the request's.
create_reddit_instance_from_environment(credentials, prov) ==
    LET reddit == [credentials |-> EnvCreds, serial |-> 0]
        err == ProviderError(reddit.credentials, prov)
    IN  IF err = "ok" THEN [reddit |-> reddit, raised |-> NoResp]
        ELSE [reddit |-> NoClient,
              raised |-> HTTPException(401, FStr("Error connecting to Reddit: ", err))]

\* The client built for one request from the credentials it carries.
create_reddit_instance_with_credentials(credentials, prov) ==
    LET reddit == [credentials |-> credentials, serial |-> 0]
        err == ProviderError(reddit.credentials, prov)
    IN  IF err = "ok" THEN [reddit |-> reddit, raised |-> NoResp]
        ELSE [reddit |-> NoClient,
              raised |-> HTTPException(401, FStr("Error connecting to Reddit: ", err))]

(***************************************************************************)
(* Endpoint bodies, each given the client it works with                    *)
(***************************************************************************)
UserStats(account) ==
    [username |-> account,
     link_karma |-> link_karma(account),
     comment_karma |-> comment_karma(account),
     total_karma |-> link_karma(account) + comment_karma(account),
     total_posts |-> CountItems(ListingAll(submissions[account])),
     total_comments |-> CountItems(ListingAll(comments[account]))]

get_user_stats(reddit, prov) ==
    LET err == ProviderError(reddit.credentials, prov) IN
    IF err # "ok" THEN HTTPException(500, FStr("Error retrieving user stats: ", err))
    ELSE Ok(UserStats(AccountOf(reddit.credentials)))

get_user_posts(limit, sort_order, reddit, prov) ==
    IF sort_order \notin SortOrders THEN
        HTTPException(400, <<"sort_order must be 'oldest' or 'newest'">>)
    ELSE
    LET err == ProviderError(reddit.credentials, prov)
        user == AccountOf(reddit.credentials)
        selected_posts ==
            IF sort_order = "oldest"
            THEN SliceTo(SortByCreated(ListingAll(submissions[user])), limit)
            ELSE ListingNew(submissions[user], limit)
    IN  IF err # "ok" THEN HTTPException(500, FStr("Error retrieving posts: ", err))
        ELSE Ok([i \in DOMAIN selected_posts |-> PostResponse(selected_posts[i])])

get_user_comments(limit, sort_order, reddit, prov) ==
    IF sort_order \notin SortOrders THEN
        HTTPException(400, <<"sort_order must be 'oldest' or 'newest'">>)
    ELSE
    LET err == ProviderError(reddit.credentials, prov)
        user == AccountOf(reddit.credentials)
        selected_comments ==
            IF sort_order = "oldest"
            THEN SliceTo(SortByCreated(ListingAll(comments[user])), limit)
            ELSE ListingNew(comments[user], limit)
    IN  IF err # "ok" THEN HTTPException(500, FStr("Error retrieving comments: ", err))
        ELSE Ok([i \in DOMAIN selected_comments |-> CommentResponse(selected_comments[i])])

get_user_stats_with_credentials(credentials, prov) ==
    LET c == create_reddit_instance_with_credentials(credentials, prov)
        err == ProviderError(c.reddit.credentials, prov)
    IN  IF c.raised # NoResp THEN c.raised
        ELSE IF err # "ok" THEN
            HTTPException(500, FStr("Error retrieving user stats: ", err))
        ELSE Ok(UserStats(AccountOf(c.reddit.credentials)))

get_user_posts_with_credentials(credentials, limit, sort_order, prov) ==
    IF sort_order \notin SortOrders THEN
        HTTPException(400, <<"sort_order must be 'oldest' or 'newest'">>)
    ELSE
    LET c == create_reddit_instance_with_credentials(credentials, prov)
        err == ProviderError(c.reddit.credentials, prov)
        user == AccountOf(c.reddit.credentials)
        selected_posts ==
            IF sort_order = "oldest"
            THEN SliceTo(SortByCreated(ListingAll(submissions[user])), limit)
            ELSE ListingNew(submissions[user], limit)
    IN  IF c.raised # NoResp THEN c.raised
        ELSE IF err # "ok" THEN HTTPException(500, FStr("Error retrieving posts: ", err))
        ELSE Ok([i \in DOMAIN selected_posts |-> PostResponse(selected_posts[i])])

get_user_comments_with_credentials(credentials, limit, sort_order, prov) ==
    IF sort_order \notin SortOrders THEN
        HTTPException(400, <<"sort_order must be 'oldest' or 'newest'">>)
    ELSE
    LET c == create_reddit_instance_with_credentials(credentials, prov)
        err == ProviderError(c.reddit.credentials, prov)
        user == AccountOf(c.reddit.credentials)
        selected_comments ==
            IF sort_order = "oldest"
            THEN SliceTo(SortByCreated(ListingAll(comments[user])), limit)
            ELSE ListingNew(comments[user], limit)
    IN  IF c.raised # NoResp THEN c.raised
        ELSE IF err # "ok" THEN
            HTTPException(500, FStr("Error retrieving comments: ", err))
        ELSE Ok([i \in DOMAIN selected_comments |-> CommentResponse(selected_comments[i])])

read_root == Ok([message |-> "Welcome to the Reddit Stats Website API!",
                 version |-> "1.0.0"])

health_check == Ok([status |-> "healthy"])

(***************************************************************************)
(* Endpoints, served one request at a time                                 *)
(***************************************************************************)
\* The run that differs only in the text of the provider's error.
TwinOf(prov) == IF prov = "ok" THEN "ok" ELSE CHOOSE e \in ErrTexts : e # prov

\* Depends(get_reddit_instance): resolved before the endpoint's body runs.
Depends(prov) == get_reddit_instance(reddit_instance, env, prov, created)

\* What resolving the dependency does to the global (and to the record of the
\* clients built and tested).
ResolveDependency ==
    LET g == Depends(provider) IN
    /\ reddit_instance' = g.global
    /\ created' = IF g.made THEN created + 1 ELSE created
    /\ verified' = IF g.passed THEN verified \cup {g.global.serial} ELSE verified

ReadRoot ==
    /\ req' = Request("/", 0, "-", "-")
    /\ resp' = read_root
    /\ twin' = read_root
    /\ UNCHANGED <<env, provider, submissions, comments, reddit_instance, created,
                   verified, pc, treq, tlocal>>

HealthCheck ==
    /\ req' = Request("/health", 0, "-", "-")
    /\ resp' = health_check
    /\ twin' = health_check
    /\ UNCHANGED <<env, provider, submissions, comments, reddit_instance, created,
                   verified, pc, treq, tlocal>>

GetUserStatsResponse(prov) ==
    LET g == Depends(prov) IN
    IF g.raised # NoResp THEN g.raised ELSE get_user_stats(g.reddit, prov)

GetUserStats ==
    /\ req' = Request("/api/user/stats", 0, "-", "-")
    /\ resp' = GetUserStatsResponse(provider)
    /\ twin' = GetUserStatsResponse(TwinOf(provider))
    /\ ResolveDependency
    /\ UNCHANGED <<env, provider, submissions, comments, pc, treq, tlocal>>

GetUserPostsResponse(limit, sort_order, prov) ==
    LET g == Depends(prov) IN
    IF g.raised # NoResp THEN g.raised
    ELSE get_user_posts(limit, sort_order, g.reddit, prov)

GetUserPosts(limit, sort_order) ==
    /\ req' = Request("/api/user/posts", limit, sort_order, "-")
    /\ resp' = GetUserPostsResponse(limit, sort_order, provider)
    /\ twin' = GetUserPostsResponse(limit, sort_order, TwinOf(provider))
    /\ ResolveDependency
    /\ UNCHANGED <<env, provider, submissions, comments, pc, treq, tlocal>>

GetUserCommentsResponse(limit, sort_order, prov) ==
    LET g == Depends(prov) IN
    IF g.raised # NoResp THEN g.raised
    ELSE get_user_comments(limit, sort_order, g.reddit, prov)

GetUserComments(limit, sort_order) ==
    /\ req' = Request("/api/user/comments", limit, sort_order, "-")
    /\ resp' = GetUserCommentsResponse(limit, sort_order, provider)
    /\ twin' = GetUserCommentsResponse(limit, sort_order, TwinOf(provider))
    /\ ResolveDependency
    /\ UNCHANGED <<env, provider, submissions, comments, pc, treq, tlocal>>

GetUserStatsWithCredentials(credentials) ==
    /\ req' = Request("/api/user/stats/with-credentials", 0, "-", credentials)
    /\ resp' = get_user_stats_with_credentials(credentials, provider)
    /\ twin' = get_user_stats_with_credentials(credentials, TwinOf(provider))
    /\ UNCHANGED <<env, provider, submissions, comments, reddit_instance, created,
                   verified, pc, treq, tlocal>>

GetUserPostsWithCredentials(credentials, limit, sort_order) ==
    /\ req' = Request("/api/user/posts/with-credentials", limit, sort_order, credentials)
    /\ resp' = get_user_posts_with_credentials(credentials, limit, sort_order, provider)
    /\ twin' = get_user_posts_with_credentials(credentials, limit, sort_order,
                                               TwinOf(provider))
    /\ UNCHANGED <<env, provider, submissions, comments, reddit_instance, created,
                   verified, pc, treq, tlocal>>

GetUserCommentsWithCredentials(credentials, limit, sort_order) ==
    /\ req' = Request("/api/user/comments/with-credentials", limit, sort_order,
                      credentials)
    /\ resp' = get_user_comments_with_credentials(credentials, limit, sort_order,
                                                  provider)
    /\ twin' = get_user_comments_with_credentials(credentials, limit, sort_order,
                                                  TwinOf(provider))
    /\ UNCHANGED <<env, provider, submissions, comments, reddit_instance, created,
                   verified, pc, treq, tlocal>>

\* The provider starts or stops failing, or fails with another error.
ProviderChange(p) ==
    /\ p # provider
    /\ provider' = p
    /\ UNCHANGED <<env, submissions, comments, reddit_instance, created, verified,
                   req, resp, twin, pc, treq, tlocal>>

(***************************************************************************)
(* The service with fixed account data                                     *)
(***************************************************************************)
Post(t, text) == [created_utc |-> t, selftext |-> text]
Comment(t, text) == [created_utc |-> t, body |-> text]

FixedSubmissions ==
    [a \in Accounts |->
        IF a = "alice" THEN <<Post(3, <<"a", "1">>), Post(1, <<>>), Post(2, <<"a", "2">>)>>
        ELSE <<Post(2, <<"b", "1">>), Post(1, <<"b", "2">>)>>]

FixedComments ==
    [a \in Accounts |->
        IF a = "alice" THEN <<Comment(2, <<"a", "3">>), Comment(1, <<"a", "4">>)>>
        ELSE <<Comment(1, <<"b", "3">>)>>]

InitService ==
    /\ reddit_instance = NoClient
    /\ created = 0
    /\ verified = {}
    /\ req = NoReq
    /\ resp = NoResp
    /\ twin = NoResp
    /\ pc = [t \in Threads |-> "idle"]
    /\ treq = [t \in Threads |-> NoReq]
    /\ tlocal = [t \in Threads |-> NoClient]

Init ==
    /\ env \in EnvChoices
    /\ provider = "ok"
    /\ submissions = FixedSubmissions
    /\ comments = FixedComments
    /\ InitService

Next ==
    \/ ReadRoot
    \/ HealthCheck
    \/ GetUserStats
    \/ \E limit \in Limits, sort_order \in SortInputs : GetUserPosts(limit, sort_order)
    \/ \E limit \in Limits, sort_order \in SortInputs : GetUserComments(limit, sort_order)
    \/ \E credentials \in Credentials : GetUserStatsWithCredentials(credentials)
    \/ \E credentials \in Credentials, limit \in Limits, sort_order \in SortInputs :
           GetUserPostsWithCredentials(credentials, limit, sort_order)
    \/ \E credentials \in Credentials, limit \in Limits, sort_order \in SortInputs :
           GetUserCommentsWithCredentials(credentials, limit, sort_order)
    \/ \E p \in {"ok"} \cup ErrTexts : ProviderChange(p)

Spec == Init /\ [][Next]_vars

(***************************************************************************)
(* The listing and stats operations over drawn account data                *)
(***************************************************************************)
PostItems == {Post(t, <<"p">>) : t \in 1..MaxTime}
CommentItems == {Comment(t, <<"c">>) : t \in 1..MaxTime}
SeqsUpTo(S, n) == UNION {[1..k -> S] : k \in 0..n}

InitListing ==
    /\ env = EnvVars
    /\ provider = "ok"
    /\ \E s \in SeqsUpTo(PostItems, MaxItems), c \in SeqsUpTo(CommentItems, MaxItems) :
          /\ Len(s) + Len(c) <= MaxItems
          /\ submissions = [a \in Accounts |-> IF a = "alice" THEN s ELSE <<>>]
          /\ comments = [a \in Accounts |-> IF a = "alice" THEN c ELSE <<>>]
    /\ InitService

NextListing ==
    \/ GetUserStats
    \/ \E limit \in Limits, sort_order \in SortOrders : GetUserPosts(limit, sort_order)
    \/ \E limit \in Limits, sort_order \in SortOrders : GetUserComments(limit, sort_order)
    \/ GetUserStatsWithCredentials("alice-secret")
    \/ \E limit \in Limits, sort_order \in SortOrders :
           GetUserPostsWithCredentials("alice-secret", limit, sort_order)
    \/ \E limit \in Limits, sort_order \in SortOrders :
           GetUserCommentsWithCredentials("alice-secret", limit, sort_order)

SpecListing == InitListing /\ [][NextListing]_vars

(***************************************************************************)
(* The listing operations over one item with a drawn text                  *)
(***************************************************************************)
TextOf(n, k) ==
    [i \in 1..n |-> IF k = 2 THEN "."
                    ELSE IF i % 3 = 0 THEN "x" ELSE IF i % 3 = 1 THEN "y" ELSE "z"]
Texts == {TextOf(n, k) : n \in 0..MaxBodyLen, k \in 1..2}

InitPreview ==
    /\ env = EnvVars
    /\ provider = "ok"
    /\ \E text \in Texts :
          /\ submissions = [a \in Accounts |-> <<Post(1, text)>>]
          /\ comments = [a \in Accounts |-> <<Comment(1, text)>>]
    /\ InitService

NextPreview ==
    \/ \E sort_order \in SortOrders : GetUserPosts(DefaultLimit, sort_order)
    \/ \E sort_order \in SortOrders : GetUserComments(DefaultLimit, sort_order)
    \/ \E sort_order \in SortOrders :
           GetUserPostsWithCredentials("alice-secret", DefaultLimit, sort_order)
    \/ \E sort_order \in SortOrders :
           GetUserCommentsWithCredentials("alice-secret", DefaultLimit, sort_order)

SpecPreview == InitPreview /\ [][NextPreview]_vars

(***************************************************************************)
(* The environment-credential endpoints on a thread pool: each request     *)
(* resolves get_reddit_instance in its own thread, a step per access of    *)
(* the global.  Requests carry the endpoints' default parameters.          *)
(***************************************************************************)
Accept(t, ep) ==
    /\ pc[t] = "idle"
    /\ treq' = [treq EXCEPT ![t] = Request(ep, DefaultLimit, DefaultSortOrder, "-")]
    /\ pc' = [pc EXCEPT ![t] = "L92"]
    /\ UNCHANGED <<env, provider, submissions, comments, reddit_instance, created,
                   verified, req, resp, twin, tlocal>>

\* Lines 92-107: return the cached client, or read the environment.
CheckCached(t) ==
    /\ pc[t] = "L92"
    /\ IF reddit_instance # NoClient THEN
           /\ tlocal' = [tlocal EXCEPT ![t] = reddit_instance]
           /\ pc' = [pc EXCEPT ![t] = "body"]
           /\ UNCHANGED <<req, resp>>
       ELSE IF env # EnvVars THEN
           /\ req' = treq[t]
           /\ resp' = HTTPException(500,
                        <<"Missing Reddit API credentials in environment variables">>)
           /\ pc' = [pc EXCEPT ![t] = "idle"]
           /\ UNCHANGED tlocal
       ELSE
           /\ pc' = [pc EXCEPT ![t] = "L111"]
           /\ UNCHANGED <<req, resp, tlocal>>
    /\ UNCHANGED <<env, provider, submissions, comments, reddit_instance, created,
                   verified, twin, treq>>

\* Lines 111-117: the global is assigned the new client.
Construct(t) ==
    /\ pc[t] = "L111"
    /\ reddit_instance' = EnvClient(created + 1)
    /\ created' = created + 1
    /\ pc' = [pc EXCEPT ![t] = "L120"]
    /\ UNCHANGED <<env, provider, submissions, comments, verified, req, resp, twin,
                   treq, tlocal>>

\* Lines 120-124: the test and the return both read the global.
TestConnection(t) ==
    /\ pc[t] = "L120"
    /\ LET err == ProviderError(reddit_instance.credentials, provider) IN
       IF err = "ok" THEN
           /\ verified' = verified \cup {reddit_instance.serial}
           /\ tlocal' = [tlocal EXCEPT ![t] = reddit_instance]
           /\ pc' = [pc EXCEPT ![t] = "body"]
           /\ UNCHANGED <<req, resp>>
       ELSE
           /\ req' = treq[t]
           /\ resp' = HTTPException(500, FStr("Error connecting to Reddit: ", err))
           /\ pc' = [pc EXCEPT ![t] = "idle"]
           /\ UNCHANGED <<verified, tlocal>>
    /\ UNCHANGED <<env, provider, submissions, comments, reddit_instance, created,
                   twin, treq>>

\* The endpoint's body, with the client the dependency returned.
RunBody(t) ==
    /\ pc[t] = "body"
    /\ req' = treq[t]
    /\ resp' = CASE treq[t].ep = "/api/user/stats" -> get_user_stats(tlocal[t], provider)
                 [] treq[t].ep = "/api/user/posts" ->
                        get_user_posts(treq[t].limit, treq[t].sort_order, tlocal[t],
                                       provider)
                 [] treq[t].ep = "/api/user/comments" ->
                        get_user_comments(treq[t].limit, treq[t].sort_order, tlocal[t],
                                          provider)
    /\ tlocal' = [tlocal EXCEPT ![t] = NoClient]
    /\ pc' = [pc EXCEPT ![t] = "idle"]
    /\ UNCHANGED <<env, provider, submissions, comments, reddit_instance, created,
                   verified, twin, treq>>

InitConc ==
    /\ env \in {EnvVars, {}}
    /\ provider = "ok"
    /\ submissions = FixedSubmissions
    /\ comments = FixedComments
    /\ InitService

NextConc ==
    \/ \E t \in Threads, ep \in EnvEps : Accept(t, ep)
    \/ \E t \in Threads : CheckCached(t)
    \/ \E t \in Threads : Construct(t)
    \/ \E t \in Threads : TestConnection(t)
    \/ \E t \in Threads : RunBody(t)
    \/ \E p \in {"ok"} \cup ErrTexts : ProviderChange(p)

SpecConc == InitConc /\ [][NextConc]_vars

(***************************************************************************)
(* Properties                                                              *)
(***************************************************************************)
StatsEps == {"/api/user/stats", "/api/user/stats/with-credentials"}
PostEps == {"/api/user/posts", "/api/user/posts/with-credentials"}

\* The account a request is served for.
ServedAccount(r) == IF r.ep \in WCEps THEN AccountOf(r.credentials) ELSE AccountOf(EnvCreds)

\* The provider's listing a listing request reads.
ListingOf(r) ==
    IF r.ep \in PostEps THEN submissions[ServedAccount(r)] ELSE comments[ServedAccount(r)]

\* A response item as the provider's record it was mapped from.
ItemOf(r, item) ==
    IF r.ep \in PostEps THEN Post(item.created_utc, item.selftext)
    ELSE Comment(item.created_utc, item.body)

Returned(r, body) == [i \in DOMAIN body |-> ItemOf(r, body[i])]

\* C1: a listing operation called with sort_order "oldest" and a limit N >= 0 on
\* a history of T items returns exactly min(N, T) items, in non-decreasing
\* created_utc order, and they are items of the complete history none of whose
\* remaining items is older than a returned one.
C1_OldestN ==
    (req.ep \in ListingEps /\ req.sort_order = "oldest" /\ req.limit >= 0) =>
        /\ resp.status = 200
        /\ LET history == ListingOf(req)
               got == Returned(req, resp.body)
               rest == SeqToBag(history) (-) SeqToBag(got)
           IN  /\ Len(got) = Min(req.limit, Len(history))
               /\ \A i \in 1..(Len(got) - 1) : got[i].created_utc <= got[i + 1].created_utc
               /\ SeqToBag(got) \sqsubseteq SeqToBag(history)
               /\ \A x \in BagToSet(rest), y \in Range(got) :
                      y.created_utc <= x.created_utc

\* An "oldest" posts request with limit 1 answered with an item that is not the
\* first of the provider's listing.
C1_Witness ==
    /\ req.ep \in PostEps
    /\ req.sort_order = "oldest"
    /\ req.limit = 1
    /\ resp.status = 200
    /\ Len(resp.body) = 1
    /\ Len(submissions["alice"]) >= 2
    /\ resp.body[1].created_utc < submissions["alice"][1].created_utc

\* C2: a response to a request during which the provider failed is the same
\* (status and detail) in the run that differs only in the text of the
\* provider's error.
C2_GenericFailure == twin.status = resp.status /\ twin.detail = resp.detail

\* C3: a listing request whose sort_order is neither "oldest" nor "newest" is
\* answered with status 400, whatever the environment, the provider and the
\* credentials.
C3_BadSortOrderIs400 ==
    (req.ep \in ListingEps /\ req.sort_order \notin SortOrders) => resp.status = 400

\* C4: while a required environment variable is missing, the service has
\* answered no request.
C4_NoAnswerWithoutConfig == env # EnvVars => resp = NoResp

\* C5: every preview in a posts or comments response equals the text when the
\* text has at most 200 characters, and its first 200 characters followed by
\* "..." otherwise, so it never has more than 203 characters and the ellipsis is
\* appended exactly when the text was truncated; an empty selftext has no
\* preview.
IsPreviewOf(text, preview) ==
    /\ Len(text) <= 200 => preview = text
    /\ Len(text) > 200 =>
          /\ Len(preview) = 203
          /\ \A i \in 1..200 : preview[i] = text[i]
          /\ \A i \in 201..203 : preview[i] = "."
    /\ Len(preview) <= 203
    /\ Len(preview) = Len(text) + (IF Len(text) > 200 THEN 203 - Len(text) ELSE 0)

C5_PreviewTruncation ==
    (req.ep \in ListingEps) =>
        /\ resp.status = 200
        /\ Len(resp.body) = 1
        /\ LET item == resp.body[1] IN
           IF req.ep \in PostEps THEN
               /\ item.selftext = submissions["alice"][1].selftext
               /\ IF item.selftext = <<>> THEN item.content_preview = NoText
                  ELSE IsPreviewOf(item.selftext, item.content_preview)
           ELSE
               /\ item.body = comments["alice"][1].body
               /\ IsPreviewOf(item.body, item.comment_preview)

\* A comment of 250 characters answered with a 203-character preview.
C5_Witness ==
    /\ req.ep = "/api/user/comments"
    /\ resp.status = 200
    /\ Len(resp.body) = 1
    /\ Len(resp.body[1].body) = 250
    /\ Len(resp.body[1].comment_preview) = 203

\* C6: a listing response for limit N holds at most max(N, 0) items, for every
\* integer N and both sort orders.
C6_AtMostLimit ==
    (req.ep \in ListingEps /\ resp.status = 200) => Len(resp.body) <= Max(req.limit, 0)

\* C7: the stats operations report total_posts and total_comments equal to the
\* number of items of the account's complete listings, each item counted once
\* per occurrence, and total_karma equal to link_karma + comment_karma.
C7_ExactStats ==
    (req.ep \in StatsEps) =>
        /\ resp.status = 200
        /\ LET a == ServedAccount(req) IN
           /\ resp.body.username = a
           /\ resp.body.total_posts = BagCardinality(SeqToBag(submissions[a]))
           /\ resp.body.total_comments = BagCardinality(SeqToBag(comments[a]))
           /\ resp.body.link_karma = link_karma(a)
           /\ resp.body.comment_karma = comment_karma(a)
           /\ resp.body.total_karma = resp.body.link_karma + resp.body.comment_karma

\* Stats of an account whose submissions listing holds the same record twice.
C7_Witness ==
    /\ req.ep \in StatsEps
    /\ resp.status = 200
    /\ Len(submissions["alice"]) = 3
    /\ submissions["alice"][1] = submissions["alice"][2]
    /\ resp.body.total_posts = 3
    /\ resp.body.total_comments = 0

\* C8: reddit_instance is set only to a client whose connection test has
\* succeeded; a request whose test fails leaves it None.
C8_CachedClientVerified ==
    reddit_instance # NoClient => reddit_instance.serial \in verified

\* C9: at most one client is ever built and assigned to reddit_instance: two
\* requests cannot both see it None and both build one.
C9_OneClientBuilt == created <= 1

\* C10: the with-credentials operations leave reddit_instance (and the count of
\* clients built for it) unchanged; reddit_instance is None or a client built
\* from the environment's credentials; a with-credentials response is that of
\* the account of the request's own credentials.
C10_FromOwnAccount ==
    (req.ep \in WCEps /\ resp.status = 200) =>
        LET a == AccountOf(req.credentials) IN
        /\ a \in Accounts
        /\ IF req.ep \in StatsEps THEN
               /\ resp.body.username = a
               /\ resp.body.total_posts = Len(submissions[a])
               /\ resp.body.total_comments = Len(comments[a])
           ELSE \A item \in Range(Returned(req, resp.body)) :
                    item \in Range(ListingOf(req))

C10_CredentialsNotRetained ==
    /\ [](reddit_instance = NoClient \/ reddit_instance.credentials = EnvCreds)
    /\ [](C10_FromOwnAccount)
    /\ [][req'.ep \in WCEps =>
            /\ reddit_instance' = reddit_instance
            /\ created' = created
            /\ verified' = verified]_vars

\* A request with bob's credentials answered with bob's posts while the cached
\* client is the environment's.
C10_Witness ==
    /\ req.ep = "/api/user/posts/with-credentials"
    /\ req.credentials = "bob-secret"
    /\ resp.status = 200
    /\ Len(resp.body) = 2
    /\ reddit_instance # NoClient

====
